---- MODULE Spec2Model ----
(***************************************************************************)
(* Model of deployment.py: the First-Time Investor Predictions API.        *)
(*                                                                         *)
(* The service is a read-only facade over three prediction files.  A       *)
(* request to /predictions loads the file of the chosen model              *)
(* (_load_predictions), ranks and truncates it (_top_rows) and serialises  *)
(* the result as JSON or CSV (get_predictions).                            *)
(*                                                                         *)
(* A DataFrame is a record [columns, index, data]: the column names in     *)
(* file order, the index labels, and one tuple of cell values per row,     *)
(* aligned with columns.  Cell values are naturals (ranks, and scores on   *)
(* an integer scale); every table carries an "id" column whose value is    *)
(* the position of the row in the file, so a row names its source          *)
(* position.                                                               *)
(*                                                                         *)
(* DataFrame.sort_values is called without kind=, so pandas sorts with     *)
(* kind="quicksort" (numpy introsort), which does not promise any order    *)
(* among rows with equal keys.  The order it gives to equal keys is fixed  *)
(* by the build (numpy version, CPU dispatch, array length) and is the     *)
(* same every time the same input is sorted.  The variable tie is that     *)
(* build-fixed order: a permutation of the row positions, chosen once in   *)
(* Init, used as the secondary sort key.                                   *)
(***************************************************************************)
EXTENDS Integers, Sequences, FiniteSets, TLC

(* ---------------------------- bounds ----------------------------------- *)
MaxRows == 3
MaxVal == 1
MaxTopX == 2

(* ------------------------ program constants ---------------------------- *)
ModelChoice == {"logistic_regression", "xgboost", "weibull_tte_rnn"}

OutputFormat == {"json", "csv"}

MODEL_FILES ==
  [m \in ModelChoice |->
     CASE m = "logistic_regression" -> "logreg_predictions_all.csv"
       [] m = "xgboost" -> "xgb_predictions_all.csv"
       [] m = "weibull_tte_rnn" -> "weibull_tte_predictions_all.csv"]

TopXMin == 1
TopXMax == 100000

(* ------------------------------ helpers -------------------------------- *)
Min(a, b) == IF a <= b THEN a ELSE b

Range(s) == {s[i] : i \in DOMAIN s}

(* --------------------------- the file system --------------------------- *)
Vals == 0..MaxVal

\* Headers of the prediction files: with a score column, with the other
\* model's score column, with a rank column, with neither.
NarrowLayouts ==
  { <<"id", "prob_first_time_investor">>,
    <<"id", "risk_6m">>,
    <<"rank", "id">>,
    <<"id">> }

\* A header with both a score and a rank column.
WideLayouts == { <<"id", "prob_first_time_investor", "rank">> }

\* The headers used where a request is compared with an earlier one.
IdemLayouts ==
  { <<"id", "prob_first_time_investor">>,
    <<"rank", "id">>,
    <<"id">> }

\* The tables pd.read_csv can return for a file with header L and n rows:
\* a fresh RangeIndex, row i carrying id = i.
TablesOf(L, n) ==
  LET free == Range(L) \ {"id"}
  IN { [columns |-> L,
        index |-> [i \in 1..n |-> i - 1],
        data |-> [i \in 1..n |->
                    [j \in 1..Len(L) |->
                       IF L[j] = "id" THEN i ELSE v[i][L[j]]]]]
       : v \in [1..n -> [free -> Vals]] }

Tables(Ls, most) == UNION {TablesOf(L, n) : L \in Ls, n \in 0..most}

\* A backing file is absent, unparsable, or parses to a table.
Missing == [kind |-> "missing"]
Malformed == [kind |-> "malformed"]
Parsed(t) == [kind |-> "table", table |-> t]

FileStates(Ts) == {Missing, Malformed} \cup {Parsed(t) : t \in Ts}

\* Disks on which one backing file has been produced (in any state) and
\* the other two have not.
Disks(Ts) ==
  { [m \in ModelChoice |-> IF m = p THEN f ELSE Missing]
    : p \in ModelChoice, f \in FileStates(Ts) }

VARIABLES
  disk,   \* the backing file of each model (PREDICTION_DB_DIR)
  tie,    \* the order the build's quicksort gives to rows with equal keys
  req,    \* the last request handled
  resp,   \* the response to it
  memo    \* an earlier request and its response, kept for comparison

vars == <<disk, tie, req, resp, memo>>

(* ------------------------------ responses ------------------------------ *)
\* Every response is a record of the same shape; a field a response does
\* not carry is empty.  results is the JSON row list, each row an ordered
\* sequence of <<column, value>> pairs (a dict in insertion order); header
\* and lines are the CSV text, split into cells.
Blank ==
  [status |-> 0, media |-> "", detail |-> <<>>, model |-> "", top_x |-> 0,
   count |-> 0, results |-> <<>>, header |-> <<>>, lines |-> <<>>,
   filename |-> <<>>]

HTTPException(status_code, detail) ==
  [Blank EXCEPT !.status = status_code, !.media = "application/json",
                !.detail = detail]

Raise(exc) == [raised |-> TRUE, value |-> exc]
Return(v) == [raised |-> FALSE, value |-> v]

(* ------------------------------- Loader -------------------------------- *)
\* Mutant of empty: the zero-row check is lost.
empty_never(df) == FALSE

\* df.empty: no rows (a parsed file always has at least one column).
empty(df) == Len(df.data) = 0 \/ Len(df.columns) = 0

_load_predictions(model_choice) ==
  LET file_path == MODEL_FILES[model_choice]
      file == disk[model_choice]
  IN IF file.kind = "missing"
       THEN Raise(HTTPException(404,
              <<"Prediction file not found for model '", model_choice,
                "': ", file_path>>))
     ELSE IF file.kind = "malformed"
       THEN Raise(HTTPException(500,
              <<"Failed to read prediction file '", file_path, "': ",
                "ParserError">>))
     ELSE IF empty(file.table)
       THEN Raise(HTTPException(404,
              <<"Prediction file '", file_path, "' is empty.">>))
     ELSE Return(file.table)

(* ------------------------------ Selector ------------------------------- *)
ColumnIndex(df, name) == CHOOSE j \in 1..Len(df.columns) : df.columns[j] = name

\* The rows of df taken in the order perm, each keeping its index label.
take(df, perm) ==
  [columns |-> df.columns,
   index |-> [i \in 1..Len(perm) |-> df.index[perm[i]]],
   data |-> [i \in 1..Len(perm) |-> df.data[perm[i]]]]

\* The positions of the rows of df in the order of column by, rows with
\* equal keys in the order t gives them.
argsort(df, by, ascending, t) ==
  LET n == Len(df.data)
      c == ColumnIndex(df, by)
      key(i) == df.data[i][c]
      Before(a, b) ==
        \/ IF ascending THEN key(a) < key(b) ELSE key(a) > key(b)
        \/ key(a) = key(b) /\ t[a] < t[b]
      place(a) == Cardinality({b \in 1..n : Before(b, a)}) + 1
  IN [i \in 1..n |-> CHOOSE a \in 1..n : place(a) = i]

\* Mutant of sort_values: the direction is ignored.
sort_values_ascending(df, by, ascending) ==
  take(df, argsort(df, by, TRUE, tie))

\* Mutant of sort_values: the order of equal keys changes from call to
\* call (here: with the outcome of the previous request).
sort_values_unsettled(df, by, ascending) ==
  take(df, argsort(df, by, ascending,
                   IF resp.status = 200 THEN tie
                   ELSE [a \in 1..MaxRows |-> MaxRows + 1 - tie[a]]))

\* df.sort_values(by, ascending=...), kind="quicksort": rows in key order,
\* rows with equal keys in the order the build gives them.
sort_values(df, by, ascending) == take(df, argsort(df, by, ascending, tie))

\* Mutant of head: nothing is cut off.
head_all(df, n) == df

\* df.head(n): the first n rows, all of them when there are fewer.
head(df, n) == take(df, [i \in 1..Min(n, Len(df.data)) |-> i])

\* Mutant of reset_index: drop=True is lost, the old labels become a
\* leading "index" column.
reset_index_keep(df) ==
  [columns |-> <<"index">> \o df.columns,
   index |-> [i \in 1..Len(df.data) |-> i - 1],
   data |-> [i \in 1..Len(df.data) |-> <<df.index[i]>> \o df.data[i]]]

\* df.reset_index(drop=True): a fresh RangeIndex; the old labels are
\* dropped, not inserted as a column.
reset_index(df) ==
  [df EXCEPT !.index = [i \in 1..Len(df.data) |-> i - 1]]

\* Mutant of _top_rows: a missing score column falls back to the other
\* model's score column.
_top_rows_fallback(df, model_choice, top_x) ==
  LET want == IF model_choice \in {"logistic_regression", "xgboost"}
                THEN "prob_first_time_investor" ELSE "risk_6m"
      other == IF model_choice \in {"logistic_regression", "xgboost"}
                 THEN "risk_6m" ELSE "prob_first_time_investor"
  IN IF "rank" \in Range(df.columns)
       THEN Return(reset_index(head(sort_values(df, "rank", TRUE), top_x)))
     ELSE IF want \in Range(df.columns)
       THEN Return(reset_index(head(sort_values(df, want, FALSE), top_x)))
     ELSE IF other \in Range(df.columns)
       THEN Return(reset_index(head(sort_values(df, other, FALSE), top_x)))
     ELSE Raise(HTTPException(422,
            <<"Expected column '", want, "' was not found.">>))

\* Mutant of _top_rows: the model's score column is tried before rank.
_top_rows_rank_last(df, model_choice, top_x) ==
  LET want == IF model_choice \in {"logistic_regression", "xgboost"}
                THEN "prob_first_time_investor" ELSE "risk_6m"
  IN IF want \in Range(df.columns)
       THEN Return(reset_index(head(sort_values(df, want, FALSE), top_x)))
     ELSE IF "rank" \in Range(df.columns)
       THEN Return(reset_index(head(sort_values(df, "rank", TRUE), top_x)))
     ELSE Raise(HTTPException(422,
            <<"Expected column '", want, "' was not found.">>))

\* Mutant of _top_rows: head(top_x) is taken before the sort.
_top_rows_head_first(df, model_choice, top_x) ==
  LET want == IF model_choice \in {"logistic_regression", "xgboost"}
                THEN "prob_first_time_investor" ELSE "risk_6m"
  IN IF "rank" \in Range(df.columns)
       THEN Return(reset_index(sort_values(head(df, top_x), "rank", TRUE)))
     ELSE IF want \in Range(df.columns)
       THEN Return(reset_index(sort_values(head(df, top_x), want, FALSE)))
     ELSE Raise(HTTPException(422,
            <<"Expected column '", want, "' was not found.">>))

_top_rows(df, model_choice, top_x) ==
  IF "rank" \in Range(df.columns)
    THEN Return(reset_index(head(sort_values(df, "rank", TRUE), top_x)))
  ELSE IF model_choice \in {"logistic_regression", "xgboost"}
    THEN IF "prob_first_time_investor" \notin Range(df.columns)
           THEN Raise(HTTPException(422,
                  <<"Expected column '", "prob_first_time_investor",
                    "' was not found.">>))
           ELSE Return(reset_index(head(
                  sort_values(df, "prob_first_time_investor", FALSE), top_x)))
  ELSE IF "risk_6m" \notin Range(df.columns)
         THEN Raise(HTTPException(422,
                <<"Expected column '", "risk_6m", "' was not found.">>))
         ELSE Return(reset_index(head(
                sort_values(df, "risk_6m", FALSE), top_x)))

(* ------------------------------ Responder ------------------------------ *)
\* top_df.to_csv(index=False): a header line of column names, then one
\* line of cells per row; the index is not written.
to_csv(df) == [header |-> df.columns, lines |-> df.data]

\* top_df.to_dict(orient="records"): one dict per row, keyed by column
\* name in column order.
to_dict(df) ==
  [i \in 1..Len(df.data) |->
     [j \in 1..Len(df.columns) |-> <<df.columns[j], df.data[i][j]>>]]

PlainTextResponse(csv_content, model, top_x) ==
  [Blank EXCEPT !.status = 200, !.media = "text/csv",
                !.header = csv_content.header, !.lines = csv_content.lines,
                !.filename = <<model, "_top_", top_x, ".csv">>]

JSONResponse(model, top_x, top_df) ==
  [Blank EXCEPT !.status = 200, !.media = "application/json",
                !.model = model, !.top_x = top_x,
                !.count = Len(top_df.data), !.results = to_dict(top_df)]

\* Mutant of ValidQuery: ge=1 is lost.
ValidQuery_no_ge(top_x) == top_x <= TopXMax

\* Query(1000, ge=1, le=100000): FastAPI rejects a top_x outside the range
\* before the handler runs.
ValidQuery(top_x) == TopXMin <= top_x /\ top_x <= TopXMax

RequestValidationError(loc) ==
  [Blank EXCEPT !.status = 422, !.media = "application/json",
                !.detail = <<"query", loc>>]

get_predictions(model, top_x, output) ==
  IF ~ValidQuery(top_x) THEN RequestValidationError("top_x")
  ELSE LET df == _load_predictions(model)
       IN IF df.raised THEN df.value
          ELSE LET top_df == _top_rows(df.value, model, top_x)
               IN IF top_df.raised THEN top_df.value
                  ELSE IF output = "csv"
                    THEN PlainTextResponse(to_csv(top_df.value), model, top_x)
                  ELSE JSONResponse(model, top_x, top_df.value)

(* ------------------------------ requests ------------------------------- *)
Request(path, model, top_x, output) ==
  [path |-> path, model |-> model, top_x |-> top_x, output |-> output]

NoReq == Request("", "", 0, "")
NoMemo == [req |-> NoReq, resp |-> Blank, between |-> FALSE]

\* Bookkeeping for comparing a request with an earlier identical one:
\* between records that some other request was handled in the meantime.
Observe(r) ==
  IF memo = NoMemo \/ r = memo.req THEN memo
  ELSE [memo EXCEPT !.between = TRUE]

GetPredictions(model, top_x, output) ==
  /\ req' = Request("/predictions", model, top_x, output)
  /\ resp' = get_predictions(model, top_x, output)
  /\ memo' = Observe(Request("/predictions", model, top_x, output))
  /\ UNCHANGED <<disk, tie>>

Health ==
  /\ req' = Request("/health", "", 0, "")
  /\ resp' = [Blank EXCEPT !.status = 200, !.media = "application/json",
                           !.detail = <<"status", "ok">>]
  /\ memo' = Observe(Request("/health", "", 0, ""))
  /\ UNCHANGED <<disk, tie>>

Ui ==
  /\ req' = Request("/ui", "", 0, "")
  /\ resp' = [Blank EXCEPT !.status = 200, !.media = "text/html"]
  /\ memo' = Observe(Request("/ui", "", 0, ""))
  /\ UNCHANGED <<disk, tie>>

Root ==
  /\ req' = Request("/", "", 0, "")
  /\ resp' = [Blank EXCEPT !.status = 307, !.detail = <<"/ui">>]
  /\ memo' = Observe(Request("/", "", 0, ""))
  /\ UNCHANGED <<disk, tie>>

\* Keep the request just handled, to compare a later identical one with.
Remember ==
  /\ req.path = "/predictions"
  /\ memo = NoMemo
  /\ memo' = [req |-> req, resp |-> resp, between |-> FALSE]
  /\ UNCHANGED <<disk, tie, req, resp>>

(* --------------------------- specifications ---------------------------- *)
TopXs == 0..MaxTopX

\* The column a request for model m sorts the file of m by; "" when the
\* request fails before sorting.
RankedBy(m) ==
  LET file == disk[m]
      by == IF "rank" \in Range(file.table.columns) THEN "rank"
            ELSE IF m \in {"logistic_regression", "xgboost"}
              THEN "prob_first_time_investor"
            ELSE "risk_6m"
  IN IF file.kind # "table" THEN ""
     ELSE IF Len(file.table.data) = 0 THEN ""
     ELSE IF by \in Range(file.table.columns) THEN by
     ELSE ""

\* Two tie orders that put the rows of the file on disk in the same order
\* are the same build to every request.  Init keeps one of each: the tie
\* order that is itself an order of the file by the column it is ranked
\* by (and the identity on positions the file does not have, and when no
\* request sorts a file).
SettledTie ==
  LET sorting == {m \in ModelChoice : RankedBy(m) # ""}
  IN IF sorting = {} THEN \A a \in 1..MaxRows : tie[a] = a
     ELSE \A m \in sorting :
            LET df == disk[m].table
                n == Len(df.data)
                by == RankedBy(m)
                c == ColumnIndex(df, by)
            IN /\ \A a \in 1..MaxRows :
                    IF a <= n THEN tie[a] <= n ELSE tie[a] = a
               /\ \A a, b \in 1..n :
                    (IF by = "rank" THEN df.data[a][c] < df.data[b][c]
                                    ELSE df.data[a][c] > df.data[b][c])
                      => tie[a] < tie[b]

InitOn(Ts) ==
  /\ disk \in Disks(Ts)
  /\ tie \in Permutations(1..MaxRows)
  /\ SettledTie
  /\ req = NoReq
  /\ resp = Blank
  /\ memo = NoMemo

Init ==
  InitOn(Tables(NarrowLayouts, MaxRows) \cup Tables(WideLayouts, MaxRows - 1))

Requests ==
  \/ \E model \in ModelChoice, top_x \in TopXs, output \in OutputFormat :
       GetPredictions(model, top_x, output)
  \/ Health
  \/ Ui
  \/ Root

Next == Requests

Spec == Init /\ [][Next]_vars

InitIdem == InitOn(Tables(IdemLayouts, MaxRows - 1))

NextIdem == Requests \/ Remember

SpecIdem == InitIdem /\ [][NextIdem]_vars

(* ----------------------- vocabulary of the claims ----------------------- *)
\* The last request was a /predictions request that passed the transport
\* validation of top_x.
Valid ==
  /\ req.path = "/predictions"
  /\ TopXMin <= req.top_x
  /\ req.top_x <= TopXMax

File == disk[req.model]

\* ... and its backing file parsed to a table with at least one row.
Loaded == Valid /\ File.kind = "table" /\ Len(File.table.data) > 0

Source == File.table

Success == req.path = "/predictions" /\ resp.status = 200

IsCsv == resp.media = "text/csv"

\* The rows and the column names the response carries, read back from the
\* CSV lines or from the JSON records.
RespRows ==
  IF IsCsv THEN resp.lines
  ELSE [i \in 1..Len(resp.results) |->
          [j \in 1..Len(resp.results[i]) |-> resp.results[i][j][2]]]

FieldNames(i) == [j \in 1..Len(resp.results[i]) |-> resp.results[i][j][1]]

RespCols == IF IsCsv THEN resp.header ELSE FieldNames(1)

Position(cols, name) == CHOOSE j \in 1..Len(cols) : cols[j] = name

OutCell(i, name) == RespRows[i][Position(RespCols, name)]

SrcCell(a, name) == Source.data[a][Position(Source.columns, name)]

HasColumn(name) == name \in Range(Source.columns)

ScoreColumn ==
  IF req.model = "weibull_tte_rnn" THEN "risk_6m"
  ELSE "prob_first_time_investor"

OtherScoreColumn ==
  IF req.model = "weibull_tte_rnn" THEN "prob_first_time_investor"
  ELSE "risk_6m"

\* The ranking key of the request: rank when the table has it, else the
\* score column of the model.
KeyColumn == IF HasColumn("rank") THEN "rank" ELSE ScoreColumn

\* x is a strictly better ranking key than y.
Better(x, y) == IF HasColumn("rank") THEN x < y ELSE x > y

Named(what) == what \in Range(resp.detail)

Times(rows, r) == Cardinality({i \in DOMAIN rows : rows[i] = r})

(* -------------------------------- claims ------------------------------- *)
\* C1: output rows with equal ranking key appear in the same relative
\* order as in the source table.  (The id of a row is its position in the
\* source, so this reads: among equal keys, ids ascend.)  The sort is not
\* stable, so a build may return tied rows in another order.
C1_StableTies ==
  Success =>
    \A i, j \in DOMAIN RespRows :
      (i < j /\ OutCell(i, KeyColumn) = OutCell(j, KeyColumn))
        => OutCell(i, "id") < OutCell(j, "id")

C3_Ranked ==
  Success =>
    \A i, j \in DOMAIN RespRows :
      i < j => ~Better(OutCell(j, KeyColumn), OutCell(i, KeyColumn))

\* Rows of a table without rank came out in strictly falling score, the
\* first of them not the first row of the file.
C3_Witness ==
  /\ Success
  /\ ~HasColumn("rank")
  /\ Len(RespRows) >= 2
  /\ OutCell(1, KeyColumn) > OutCell(2, KeyColumn)
  /\ RespRows[1] # Source.data[1]

\* C4 as claimed: a missing file and a file with zero rows both give 404
\* with a message that names the file and the model.
C4_Original ==
  (Valid /\ (\/ File.kind = "missing"
             \/ File.kind = "table" /\ Len(File.table.data) = 0)) =>
    /\ resp.status = 404
    /\ Named(MODEL_FILES[req.model])
    /\ Named(req.model)

\* C4 as amended: both give 404 with a message that names the file; the
\* message names the model when the file is missing, and not when it has
\* zero rows.
C4_NotFound ==
  (Valid /\ (\/ File.kind = "missing"
             \/ File.kind = "table" /\ Len(File.table.data) = 0)) =>
    /\ resp.status = 404
    /\ Named(MODEL_FILES[req.model])
    /\ Named(req.model) <=> File.kind = "missing"

\* A file with a header and no rows was answered with 404.
C4_Witness ==
  /\ Valid
  /\ File.kind = "table"
  /\ Len(File.table.data) = 0
  /\ resp.status = 404

\* C5: a non-empty table with neither rank nor the score column of the
\* model gives 422 naming that column, and no rows, whatever other column
\* it has.
C5_MissingColumn ==
  (Loaded /\ ~HasColumn("rank") /\ ~HasColumn(ScoreColumn)) =>
    /\ resp.status = 422
    /\ Named(ScoreColumn)
    /\ resp.lines = <<>>
    /\ resp.results = <<>>

\* The request was refused although the table has the other model's score
\* column.
C5_Witness ==
  /\ Loaded
  /\ ~HasColumn("rank")
  /\ ~HasColumn(ScoreColumn)
  /\ HasColumn(OtherScoreColumn)
  /\ resp.status = 422

\* C6: a successful response has at least one row, and each row in it is
\* a row of the source, returned no more often than the source has it.
C6_RowsOfSource ==
  Success =>
    /\ Len(RespRows) >= 1
    /\ \A r \in Range(RespRows) :
         Times(RespRows, r) <= Times(Source.data, r)

\* A response that is a proper truncation and starts with another row
\* than the file.
C6_Witness ==
  /\ Success
  /\ Len(RespRows) >= 1
  /\ Len(RespRows) < Len(Source.data)
  /\ RespRows[1] # Source.data[1]

C8_ColumnOrder ==
  Success =>
    /\ IsCsv => resp.header = Source.columns
    /\ ~IsCsv => \A i \in DOMAIN resp.results : FieldNames(i) = Source.columns

\* A CSV response for a table whose first column is not id.
C8_Witness ==
  /\ Success
  /\ IsCsv
  /\ Source.columns[1] = "rank"
  /\ Len(resp.lines) >= 1
  /\ resp.header = Source.columns

\* C9: a non-empty table with a rank column is answered, for every model,
\* with its rows in ascending rank; never with 422.
C9_RankWins ==
  (Loaded /\ HasColumn("rank")) =>
    /\ resp.status = 200
    /\ \A i, j \in DOMAIN RespRows :
         i < j => OutCell(i, "rank") <= OutCell(j, "rank")

\* Rows came out by rank although the score column of the model, present
\* in the table, orders them the other way.
C9_Witness ==
  /\ Loaded
  /\ HasColumn("rank")
  /\ HasColumn(ScoreColumn)
  /\ resp.status = 200
  /\ Len(RespRows) >= 2
  /\ OutCell(1, "rank") < OutCell(2, "rank")
  /\ OutCell(1, ScoreColumn) < OutCell(2, ScoreColumn)

\* C10: when top_x is smaller than the table, no row left out has a
\* strictly better ranking key than a row returned.
C10_BestRows ==
  (Success /\ req.top_x < Len(Source.data)) =>
    \A a \in DOMAIN Source.data :
      Source.data[a] \notin Range(RespRows) =>
        \A i \in DOMAIN RespRows :
          ~Better(SrcCell(a, KeyColumn), OutCell(i, KeyColumn))

\* The first row of the file was left out for a strictly better one.
C10_Witness ==
  /\ Success
  /\ req.top_x < Len(Source.data)
  /\ Source.data[1] \notin Range(RespRows)
  /\ Better(OutCell(1, KeyColumn), SrcCell(1, KeyColumn))

====
